---- MODULE Spec2Model ----
(***************************************************************************)
(* Model of unet/model.py: the class Model, a training / validation /      *)
(* prediction harness around a network, a loss, an optimizer and an        *)
(* optional scheduler.                                                     *)
(*                                                                         *)
(* Python values are modelled as follows.                                  *)
(*   None            the empty tuple << >>; a present value v is <<v>>     *)
(*   a float mean    a reduced fraction <<numerator, denominator>>;        *)
(*                   np.inf is <<1, 0>>                                    *)
(*   a dataset       [n |-> number of samples, losses |-> the values the   *)
(*                   loss can take on its batches]                         *)
(*   a prediction    [n |-> number of samples, shape |-> the fields every  *)
(*   dataset         sample carries after the input]                       *)
(*   an exception    err holds its class name, control returns to the      *)
(*                   caller of the outermost method, the frames are gone   *)
(* The wall-clock time and the device memory of a log record are opaque    *)
(* measurements and are left out of the record.                            *)
(***************************************************************************)
EXTENDS Integers, Sequences, FiniteSets, TLC

VARIABLES
    pc,          \* position of control inside the methods of Model
    method,      \* the outermost method running or last run
    calls,       \* number of outermost method calls made so far
    err,         \* class name of the exception the last call raised
    ret,         \* value the last outermost call returned
    mode,        \* self.net.training: "train" or "eval"
    touched,     \* a method that sets the mode has been entered
    params,      \* number of optimizer updates applied to the network
    scheduler,   \* self.scheduler: None or <<number of steps taken>>
    fe,          \* frame of fit_epoch
    ve,          \* frame of val_epoch
    metric_list, \* the metric aggregator: number of accumulated batches
    pd,          \* frame of predict_dataset
    exported,    \* the image files the last predict_dataset call wrote
    fd,          \* frame of fit_dataset
    ckpt,        \* what fit_dataset wrote under checkpoint_folder
    logger       \* the Logger of fit_dataset and the rows of logs.csv

vars == <<pc, method, calls, err, ret, mode, touched, params,
          scheduler, fe, ve, metric_list, pd, exported, fd, ckpt, logger>>

(***************************************************************************)
(* Bounds of the model.                                                    *)
(***************************************************************************)
MaxCalls == 2
MaxSamples == 2
MaxEpochs == 2

LossVals == {1, 2}

None == << >>
Some(v) == <<v>>

(***************************************************************************)
(* Float arithmetic on means: reduced fractions.                           *)
(***************************************************************************)
RECURSIVE GCD(_, _)
GCD(a, b) == IF b = 0 THEN a ELSE GCD(b, a % b)

Div(a, b) == LET g == GCD(a, b) IN <<a \div g, b \div g>>

Inf == <<1, 0>>

Less(x, y) == x[1] * y[2] < y[1] * x[2]

(***************************************************************************)
(* DataLoader(dataset, batch_size, shuffle): the batches of one pass, each *)
(* batch the sample indices it holds. order is the sampler's permutation.  *)
(***************************************************************************)
Perms(n) == {f \in [1..n -> 1..n] : \A i, j \in 1..n : f[i] = f[j] => i = j}

Orders(n, shuffle) == IF shuffle THEN Perms(n) ELSE {[i \in 1..n |-> i]}

NumBatches(n, n_batch) == (n + n_batch - 1) \div n_batch

DataLoader(n, n_batch, order) ==
    [b \in 1..NumBatches(n, n_batch) |->
        [k \in 1..(IF b * n_batch <= n THEN n_batch ELSE n - (b - 1) * n_batch)
            |-> order[(b - 1) * n_batch + k]]]

(***************************************************************************)
(* The inputs the methods are called with.                                 *)
(***************************************************************************)
Datasets == [n : 0..MaxSamples, losses : {LossVals}]

BatchSizes == {1, 2}

Shapes == {"x", "x_id", "x_y", "x_y_id"}

PredictDatasets == [n : 0..MaxSamples, shape : Shapes]

Letters == <<"a", "b", "c", "d", "e", "f">>

Tensor == [kind |-> "tensor", val |-> ""]

Str(s) == [kind |-> "str", val |-> s]

\* What a sample of a prediction dataset carries after its input: nothing,
\* its file name, a target, or a target and its file name.
RestOf(shape, i) ==
    CASE shape = "x" -> << >>
      [] shape = "x_id" -> <<Str(Letters[i] \o ".png")>>
      [] shape = "x_y" -> <<Tensor>>
      [] shape = "x_y_id" -> <<Tensor, Str(Letters[i] \o ".png")>>

Samples(ds) == [i \in 1..ds.n |-> RestOf(ds.shape, i)]

(***************************************************************************)
(* Python's str(int), '%d' % int and str.zfill.                            *)
(***************************************************************************)
Digits == <<"0", "1", "2", "3", "4", "5", "6", "7", "8", "9">>

RECURSIVE IntToStr(_)
IntToStr(k) ==
    IF k < 10 THEN Digits[k + 1] ELSE IntToStr(k \div 10) \o Digits[(k % 10) + 1]

RECURSIVE zfill(_, _)
zfill(s, width) == IF Len(s) >= width THEN s ELSE zfill("0" \o s, width)

(***************************************************************************)
(* Names. fit_dataset reads the name train_loss, which it never assigns    *)
(* and the module never defines.                                           *)
(***************************************************************************)
ModuleGlobals ==
    {"os", "np", "torch", "nn", "Variable", "DataLoader", "Dataset", "io",
     "time", "chk_mkdir", "Logger", "MetricList", "Model"}

FitDatasetLocals ==
    {"self", "dataset", "n_epochs", "n_batch", "shuffle", "val_dataset",
     "save_freq", "predict_dataset", "metric_list", "verbose", "logger",
     "min_loss", "train_start", "epoch_idx", "train_logs", "val_logs",
     "epoch_end", "logs", "epoch_save_path"}

Resolves(name) == name \in FitDatasetLocals \cup ModuleGlobals

(***************************************************************************)
(* Collaborators defined in unet/utils.py.                                 *)
(***************************************************************************)
chk_mkdir(dirs, path) == dirs \cup {path}

LoggerNew == [logs |-> << >>, csv |-> << >>]

LoggerLog(lg, rec) == [lg EXCEPT !.logs = Append(@, rec)]

LoggerToCsv(lg) == [lg EXCEPT !.csv = lg.logs]

MetricReset == [n |-> 0]

MetricAccumulate(m) == [n |-> m.n + 1]

(***************************************************************************)
(* Frames.                                                                 *)
(***************************************************************************)
NoLoop == [loader |-> << >>, total |-> 0, bound |-> FALSE, batch_idx |-> 0,
           running |-> 0, observed |-> << >>, losses |-> {}]

NewLoop(batches, losses) ==
    [loader |-> batches, total |-> Len(batches), bound |-> FALSE,
     batch_idx |-> 0, running |-> 0, observed |-> << >>, losses |-> losses]

\* One turn of `for batch_idx, (X_batch, y_batch, *rest) in enumerate(...)`
\* that ends with `running += training_loss.item()`.
LoopBatch(f, l) ==
    [f EXCEPT !.loader = Tail(@), !.bound = TRUE,
              !.batch_idx = IF f.bound THEN @ + 1 ELSE 0,
              !.running = @ + l, !.observed = Append(@, l)]

NoPredict == [samples |-> << >>, batch_idx |-> 0, export_path |-> ""]

NoExport == [path |-> "", source |-> [n |-> 0, shape |-> "x"], files |-> << >>]

NoFit == [dataset |-> [n |-> 0, losses |-> {}], n_epochs |-> 0, n_batch |-> 1,
          shuffle |-> FALSE, val_dataset |-> None, save_freq |-> None,
          predict_dataset |-> None, epoch_idx |-> 0, min_loss |-> Inf,
          train_logs |-> None, val_logs |-> None]

NoCkpt == [best_model |-> None, latest_model |-> None, best_at |-> << >>,
           latest_at |-> << >>, dirs |-> {}, models |-> {}, predicted |-> {}]

(***************************************************************************)
(* The state after Model(net, loss, optimizer, checkpoint_folder, ...).    *)
(* The network arrives in either mode, the scheduler is optional.          *)
(***************************************************************************)
Init ==
    /\ pc = "idle"
    /\ method = "none"
    /\ calls = 0
    /\ err = "none"
    /\ ret = None
    /\ mode \in {"train", "eval"}
    /\ touched = FALSE
    /\ params = 0
    /\ scheduler \in {None, Some(0)}
    /\ fe = NoLoop
    /\ ve = NoLoop
    /\ metric_list = MetricReset
    /\ pd = NoPredict
    /\ exported = NoExport
    /\ fd = NoFit
    /\ ckpt = NoCkpt
    /\ logger = LoggerNew

(***************************************************************************)
(* Calls, returns and exceptions.                                          *)
(***************************************************************************)
Enter(name) ==
    /\ pc = "idle"
    /\ calls < MaxCalls
    /\ calls' = calls + 1
    /\ method' = name
    /\ err' = "none"
    /\ ret' = None

Inner == UNCHANGED <<method, calls, err, ret>>

\* An exception leaves every frame and reaches the caller of the outermost
\* method.
Raise(e) ==
    /\ pc' = "idle"
    /\ err' = e
    /\ ret' = None
    /\ fe' = NoLoop
    /\ ve' = NoLoop
    /\ pd' = NoPredict
    /\ UNCHANGED <<method, calls, fd>>

ReturnTop(v) ==
    /\ pc' = "idle"
    /\ ret' = Some(v)
    /\ UNCHANGED <<method, calls, err>>

(***************************************************************************)
(* fit_epoch                                                               *)
(***************************************************************************)
OptimizerStep(p) == p + 1

TrainLossMeanSkewed(running, batch_idx) == Div(running, batch_idx + 2)

\* epoch_running_loss / (batch_idx + 1)
TrainLossMean(running, batch_idx) == Div(running, batch_idx + 1)

AfterFitLoopKept(m) == m

\* self.net.train(False) after the batch loop
AfterFitLoop(m) == "eval"

\* self.net.train(True) and the creation of the DataLoader
StartFitEpoch(ds, n_batch, order) ==
    /\ mode' = "train"
    /\ touched' = TRUE
    /\ fe' = NewLoop(DataLoader(ds.n, n_batch, order), ds.losses)
    /\ pc' = "fit_epoch"

CallFitEpoch ==
    /\ Enter("fit_epoch")
    /\ \E ds \in Datasets, n_batch \in BatchSizes, shuffle \in BOOLEAN :
         \E order \in Orders(ds.n, shuffle) : StartFitEpoch(ds, n_batch, order)
    /\ UNCHANGED <<params, scheduler, ve, metric_list, pd, exported, fd, ckpt, logger>>

\* zero_grad, forward, loss, backward, optimizer step, accumulation
FitEpochBatch ==
    /\ pc = "fit_epoch"
    /\ fe.loader # << >>
    /\ \E l \in fe.losses : fe' = LoopBatch(fe, l)
    /\ params' = OptimizerStep(params)
    /\ Inner
    /\ UNCHANGED <<pc, mode, touched, scheduler, ve, metric_list, pd,
                   exported, fd, ckpt, logger>>

\* The loader is exhausted: train(False), del X_batch, y_batch, the mean.
FitEpochEnd ==
    /\ pc = "fit_epoch"
    /\ fe.loader = << >>
    /\ mode' = AfterFitLoop(mode)
    /\ IF ~fe.bound
       THEN /\ Raise("UnboundLocalError")
            /\ UNCHANGED <<touched, params, scheduler, metric_list, exported,
                           ckpt, logger>>
       ELSE LET logs == [train_loss |-> TrainLossMean(fe.running, fe.batch_idx)]
            IN  /\ fe' = NoLoop
                /\ IF method # "fit_dataset"
                   THEN ReturnTop(logs) /\ UNCHANGED fd
                   ELSE /\ fd' = [fd EXCEPT !.train_logs = Some(logs)]
                        /\ pc' = "fd_sched"
                        /\ Inner
                /\ UNCHANGED <<touched, params, scheduler, ve, metric_list, pd,
                               exported, ckpt, logger>>

(***************************************************************************)
(* val_epoch                                                               *)
(***************************************************************************)
\* self.net.train(False), metric_list.reset() and the DataLoader
StartValEpoch(ds, n_batch) ==
    /\ mode' = "eval"
    /\ touched' = TRUE
    /\ metric_list' = MetricReset
    /\ ve' = NewLoop(DataLoader(ds.n, n_batch, [i \in 1..ds.n |-> i]), ds.losses)
    /\ pc' = "val_epoch"

CallValEpoch ==
    /\ Enter("val_epoch")
    /\ \E ds \in Datasets, n_batch \in BatchSizes : StartValEpoch(ds, n_batch)
    /\ UNCHANGED <<params, scheduler, fe, pd, exported, fd, ckpt, logger>>

ValEpochBatchStepping ==
    /\ pc = "val_epoch"
    /\ ve.loader # << >>
    /\ \E l \in ve.losses : ve' = LoopBatch(ve, l)
    /\ metric_list' = MetricAccumulate(metric_list)
    /\ params' = OptimizerStep(params)
    /\ Inner
    /\ UNCHANGED <<pc, mode, touched, scheduler, fe, pd, exported, fd,
                   ckpt, logger>>

\* forward, loss, accumulation, metric_list(y_out, y_batch)
ValEpochBatch ==
    /\ pc = "val_epoch"
    /\ ve.loader # << >>
    /\ \E l \in ve.losses : ve' = LoopBatch(ve, l)
    /\ metric_list' = MetricAccumulate(metric_list)
    /\ Inner
    /\ UNCHANGED <<pc, mode, touched, params, scheduler, fe, pd,
                   exported, fd, ckpt, logger>>

\* The loader is exhausted: del X_batch, y_batch, the mean, the metrics
\* (MetricList({}) holds no metric, so get_results adds no key).
ValEpochEnd ==
    /\ pc = "val_epoch"
    /\ ve.loader = << >>
    /\ IF ~ve.bound
       THEN Raise("UnboundLocalError")
       ELSE LET logs == [val_loss |-> Div(ve.running, ve.batch_idx + 1)]
            IN  /\ ve' = NoLoop
                /\ IF method # "fit_dataset"
                   THEN ReturnTop(logs) /\ UNCHANGED fd
                   ELSE /\ fd' = [fd EXCEPT !.val_logs = Some(logs)]
                        /\ pc' = "fd_best"
                        /\ Inner
                /\ UNCHANGED <<fe, pd>>
    /\ UNCHANGED <<mode, touched, params, scheduler, metric_list, exported,
                   ckpt, logger>>

(***************************************************************************)
(* predict_dataset and predict_batch                                       *)
(***************************************************************************)
\* '%s.png' % str(batch_idx + 1).zfill(3), unless rest[0][0] is a str
ImageFilename(rest, batch_idx) ==
    IF rest[1].kind = "str"
    THEN rest[1].val
    ELSE zfill(IntToStr(batch_idx + 1), 3) \o ".png"

\* self.net.train(False), chk_mkdir(export_path) and the DataLoader
StartPredictDataset(ds, export_path) ==
    /\ mode' = "eval"
    /\ touched' = TRUE
    /\ pd' = [samples |-> Samples(ds), batch_idx |-> 0, export_path |-> export_path]
    /\ exported' = [path |-> export_path, source |-> ds, files |-> << >>]
    /\ pc' = "predict_dataset"

CallPredictDataset ==
    /\ Enter("predict_dataset")
    /\ \E ds \in PredictDatasets : StartPredictDataset(ds, "export")
    /\ UNCHANGED <<params, scheduler, fe, ve, metric_list, fd, ckpt, logger>>

\* One sample: the file name, the forward pass, io.imsave.
PredictSample ==
    /\ pc = "predict_dataset"
    /\ pd.samples # << >>
    /\ LET rest == Head(pd.samples)
       IN  IF rest = << >>
           THEN Raise("IndexError") /\ UNCHANGED exported
           ELSE /\ exported' = [exported EXCEPT
                                  !.files = Append(@, ImageFilename(rest, pd.batch_idx))]
                /\ pd' = [pd EXCEPT !.samples = Tail(@), !.batch_idx = @ + 1]
                /\ Inner
                /\ UNCHANGED <<pc, fe, ve, fd>>
    /\ UNCHANGED <<mode, touched, params, scheduler, metric_list, ckpt, logger>>

\* The loader is exhausted: predict_dataset returns None.
PredictDatasetEnd ==
    /\ pc = "predict_dataset"
    /\ pd.samples = << >>
    /\ pd' = NoPredict
    /\ IF method # "fit_dataset"
       THEN /\ pc' = "idle"
            /\ Inner
       ELSE /\ pc' = "fd_for"
            /\ Inner
    /\ UNCHANGED <<mode, touched, params, scheduler, fe, ve, metric_list,
                   exported, fd, ckpt, logger>>

\* self.net.train(False)
CallPredictBatch ==
    /\ Enter("predict_batch")
    /\ mode' = "eval"
    /\ touched' = TRUE
    /\ pc' = "predict_batch"
    /\ UNCHANGED <<params, scheduler, fe, ve, metric_list, pd, exported, fd,
                   ckpt, logger>>

\* y_out = self.net(X_batch); return y_out
PredictBatchForward ==
    /\ pc = "predict_batch"
    /\ ReturnTop("y_out")
    /\ UNCHANGED <<mode, touched, params, scheduler, fe, ve, metric_list, pd,
                   exported, fd, ckpt, logger>>

(***************************************************************************)
(* fit_dataset                                                             *)
(***************************************************************************)
FitArgsOf(ds, n_epochs, n_batch, shuffle, val, save_freq, predict) ==
    [NoFit EXCEPT !.dataset = ds, !.n_epochs = n_epochs, !.n_batch = n_batch,
                  !.shuffle = shuffle, !.val_dataset = val,
                  !.save_freq = save_freq, !.predict_dataset = predict]

\* Short runs over every training and validation dataset.
LoopArgs ==
    {FitArgsOf(ds, n, b, sh, val, None, None) :
        ds \in Datasets, n \in 0..MaxEpochs, b \in BatchSizes, sh \in BOOLEAN,
        val \in {None} \cup {Some(v) : v \in Datasets}}

\* Four epochs whose validation losses range over 1.2, 1.5, 1.8 and 2.0
\* (in tenths).
BestArgs ==
    {FitArgsOf([n |-> 1, losses |-> {10}], 4, 1, FALSE,
               Some([n |-> 1, losses |-> {12, 15, 18, 20}]), None, None)}

\* Twelve epochs under every kind of save_freq and prediction dataset.
SaveArgs ==
    {FitArgsOf([n |-> 1, losses |-> {1}], 12, 1, FALSE,
               Some([n |-> 1, losses |-> {1}]), sf, p) :
        sf \in {None, Some(0), Some(1), Some(5), Some(7)},
        p \in {None} \cup {Some(q) : q \in PredictDatasets}}

FitArgs == LoopArgs \cup BestArgs \cup SaveArgs

\* logger = Logger(); min_loss = np.inf; train_start = time()
CallFitDataset ==
    /\ pc = "idle"
    /\ calls = 0
    /\ calls' = 1
    /\ method' = "fit_dataset"
    /\ err' = "none"
    /\ ret' = None
    /\ \E a \in FitArgs : fd' = a
    /\ logger' = LoggerNew
    /\ ckpt' = NoCkpt
    /\ pc' = "fd_for"
    /\ UNCHANGED <<mode, touched, params, scheduler, fe, ve, metric_list, pd,
                   exported>>

\* for epoch_idx in range(1, n_epochs + 1): the next epoch starts with
\* fit_epoch; after the last one the logger is kept and returned.
FdFor ==
    /\ pc = "fd_for"
    /\ IF fd.epoch_idx < fd.n_epochs
       THEN /\ fd' = [fd EXCEPT !.epoch_idx = @ + 1]
            /\ \E order \in Orders(fd.dataset.n, fd.shuffle) :
                 StartFitEpoch(fd.dataset, fd.n_batch, order)
            /\ Inner
       ELSE /\ ReturnTop(logger.logs)
            /\ UNCHANGED <<mode, touched, fe, fd>>
    /\ UNCHANGED <<params, scheduler, ve, metric_list, pd, exported, ckpt, logger>>

\* if self.scheduler is not None: self.scheduler.step(train_loss)
FdScheduler ==
    /\ pc = "fd_sched"
    /\ IF scheduler = None
       THEN /\ pc' = "fd_val"
            /\ Inner
            /\ UNCHANGED <<scheduler, fe, ve, pd, fd>>
       ELSE IF Resolves("train_loss")
            THEN /\ scheduler' = Some(scheduler[1] + 1)
                 /\ pc' = "fd_val"
                 /\ Inner
                 /\ UNCHANGED <<fe, ve, pd, fd>>
            ELSE Raise("NameError") /\ UNCHANGED scheduler
    /\ UNCHANGED <<mode, touched, params, metric_list, exported, ckpt, logger>>

\* if val_dataset is not None: val_epoch(...) else: if train_loss < min_loss
FdValidate ==
    /\ pc = "fd_val"
    /\ IF fd.val_dataset # None
       THEN /\ StartValEpoch(fd.val_dataset[1], fd.n_batch)
            /\ Inner
            /\ UNCHANGED <<fe, pd, fd>>
       ELSE /\ ~Resolves("train_loss")
            /\ Raise("NameError")
            /\ UNCHANGED <<mode, touched, metric_list>>
    /\ UNCHANGED <<params, scheduler, exported, ckpt, logger>>

ImprovesOrTies(loss, min_loss) == ~Less(min_loss, loss)

\* val_logs['val_loss'] < min_loss
Improves(loss, min_loss) == Less(loss, min_loss)

\* torch.save(self.net.state_dict(), .../'best_model'); min_loss = val_loss
FdBest ==
    /\ pc = "fd_best"
    /\ LET val_loss == fd.val_logs[1].val_loss
       IN  IF Improves(val_loss, fd.min_loss)
           THEN /\ ckpt' = [ckpt EXCEPT !.best_model = Some(params),
                                        !.best_at = Append(@, fd.epoch_idx)]
                /\ fd' = [fd EXCEPT !.min_loss = val_loss]
           ELSE UNCHANGED <<ckpt, fd>>
    /\ pc' = "fd_latest"
    /\ Inner
    /\ UNCHANGED <<mode, touched, params, scheduler, fe, ve, metric_list, pd,
                   exported, logger>>

\* torch.save(self.net.state_dict(), .../'latest_model')
FdLatest ==
    /\ pc = "fd_latest"
    /\ ckpt' = [ckpt EXCEPT !.latest_model = Some(params),
                            !.latest_at = Append(@, fd.epoch_idx)]
    /\ pc' = "fd_log"
    /\ Inner
    /\ UNCHANGED <<mode, touched, params, scheduler, fe, ve, metric_list, pd,
                   exported, fd, logger>>

EpochLogsStale(epoch_idx, val_logs, train_logs) ==
    [epoch |-> epoch_idx - 1, val_loss |-> val_logs.val_loss,
     train_loss |-> train_logs.train_loss]

\* logs = {'epoch': epoch_idx, 'time': ..., 'memory': ..., **val_logs, **train_logs}
EpochLogs(epoch_idx, val_logs, train_logs) ==
    [epoch |-> epoch_idx, val_loss |-> val_logs.val_loss,
     train_loss |-> train_logs.train_loss]

\* logger.log(logs); logger.to_csv(.../'logs.csv')
FdLog ==
    /\ pc = "fd_log"
    /\ logger' = LoggerToCsv(LoggerLog(logger,
                     EpochLogs(fd.epoch_idx, fd.val_logs[1], fd.train_logs[1])))
    /\ pc' = "fd_save"
    /\ Inner
    /\ UNCHANGED <<mode, touched, params, scheduler, fe, ve, metric_list, pd,
                   exported, fd, ckpt>>

SaveDueNext(save_freq, epoch_idx) ==
    /\ save_freq # None
    /\ save_freq[1] # 0
    /\ (epoch_idx + 1) % save_freq[1] = 0

\* save_freq and (epoch_idx % save_freq == 0)
SaveDue(save_freq, epoch_idx) ==
    /\ save_freq # None
    /\ save_freq[1] # 0
    /\ epoch_idx % save_freq[1] = 0

\* `if predict_dataset:` a Dataset is true unless it is None or its __len__
\* is 0
Truthy(dataset) == dataset # None /\ dataset[1].n # 0

\* chk_mkdir(epoch_save_path); torch.save(..., epoch_save_path/'model');
\* if predict_dataset: self.predict_dataset(predict_dataset, epoch_save_path)
FdSave ==
    /\ pc = "fd_save"
    /\ LET epoch_save_path == IntToStr(fd.epoch_idx)
       IN  IF SaveDue(fd.save_freq, fd.epoch_idx)
           THEN IF Truthy(fd.predict_dataset)
                THEN /\ ckpt' = [ckpt EXCEPT
                                   !.dirs = chk_mkdir(@, epoch_save_path),
                                   !.models = @ \cup {epoch_save_path},
                                   !.predicted = @ \cup {epoch_save_path}]
                     /\ StartPredictDataset(fd.predict_dataset[1], epoch_save_path)
                ELSE /\ ckpt' = [ckpt EXCEPT
                                   !.dirs = chk_mkdir(@, epoch_save_path),
                                   !.models = @ \cup {epoch_save_path}]
                     /\ pc' = "fd_for"
                     /\ UNCHANGED <<mode, touched, pd, exported>>
           ELSE /\ pc' = "fd_for"
                /\ UNCHANGED <<mode, touched, pd, exported, ckpt>>
    /\ Inner
    /\ UNCHANGED <<params, scheduler, fe, ve, metric_list, fd, logger>>

(***************************************************************************)
(* Specifications. Spec: any sequence of calls of fit_epoch, val_epoch,    *)
(* predict_dataset and predict_batch on one Model. SpecFit: one call of    *)
(* fit_dataset.                                                            *)
(***************************************************************************)
Next ==
    \/ CallFitEpoch
    \/ FitEpochBatch
    \/ FitEpochEnd
    \/ CallValEpoch
    \/ ValEpochBatch
    \/ ValEpochEnd
    \/ CallPredictDataset
    \/ PredictSample
    \/ PredictDatasetEnd
    \/ CallPredictBatch
    \/ PredictBatchForward

Spec == Init /\ [][Next]_vars

NextFit ==
    \/ CallFitDataset
    \/ FdFor
    \/ FitEpochBatch
    \/ FitEpochEnd
    \/ FdScheduler
    \/ FdValidate
    \/ ValEpochBatch
    \/ ValEpochEnd
    \/ FdBest
    \/ FdLatest
    \/ FdLog
    \/ FdSave
    \/ PredictSample
    \/ PredictDatasetEnd

SpecFit == Init /\ [][NextFit]_vars

(***************************************************************************)
(* Properties.                                                             *)
(***************************************************************************)
RECURSIVE SumSeq(_)
SumSeq(q) == IF q = << >> THEN 0 ELSE Head(q) + SumSeq(Tail(q))

Range(q) == {q[i] : i \in 1..Len(q)}

Returned == pc = "idle" /\ calls > 0 /\ err = "none"

\* The epochs of the running fit_dataset call whose comparison against the
\* best loss has been made, and the validation loss of each.
Decided ==
    IF pc \in {"fd_latest", "fd_log"} THEN 1..fd.epoch_idx ELSE 1..Len(logger.logs)

ValLossOf(e) ==
    IF e <= Len(logger.logs) THEN logger.logs[e].val_loss ELSE fd.val_logs[1].val_loss

\* C1: with a validation dataset, best_model is written in epoch e exactly
\* when that epoch's validation loss is strictly below every earlier epoch's;
\* latest_model is written once in every epoch, n_epochs times in a run that
\* returns; the losses 2.0, 1.5, 1.8, 1.2 give best_model writes at epochs
\* 1, 2 and 4 and four latest_model writes.
C1_BestAndLatest ==
    (method = "fit_dataset" /\ fd.val_dataset # None) =>
        /\ \A e \in Decided :
             (e \in Range(ckpt.best_at)) <=>
                 (\A j \in 1..(e - 1) : Less(ValLossOf(e), ValLossOf(j)))
        /\ Range(ckpt.best_at) \subseteq Decided
        /\ \A i, j \in 1..Len(ckpt.best_at) : i < j => ckpt.best_at[i] < ckpt.best_at[j]
        /\ ckpt.latest_at =
             [e \in 1..(IF pc = "fd_log" THEN fd.epoch_idx ELSE Len(logger.logs)) |-> e]
        /\ Returned => Len(ckpt.latest_at) = fd.n_epochs
        /\ [e \in 1..Len(logger.logs) |-> logger.logs[e].val_loss]
               = <<(<<20, 1>>), (<<15, 1>>), (<<18, 1>>), (<<12, 1>>)>>
             => ckpt.best_at = <<1, 2, 4>> /\ Len(ckpt.latest_at) = 4

C1_Witness ==
    /\ Returned
    /\ method = "fit_dataset"
    /\ [e \in 1..Len(logger.logs) |-> logger.logs[e].val_loss]
           = <<(<<20, 1>>), (<<15, 1>>), (<<18, 1>>), (<<12, 1>>)>>
    /\ ckpt.best_at = <<1, 2, 4>>
    /\ ckpt.latest_at = <<1, 2, 3, 4>>

\* C2: without a validation dataset and without a scheduler, fit_dataset
\* compares each epoch's training loss against the best so far, writes
\* best_model on an improvement, goes on to latest_model and the log record
\* and completes all n_epochs.
C2_TrainLossBranchCompletes ==
    (method = "fit_dataset" /\ fd.val_dataset = None /\ scheduler = None
        /\ fd.dataset.n > 0) =>
        /\ err = "none"
        /\ pc = "idle" =>
             /\ Len(ckpt.latest_at) = fd.n_epochs
             /\ Len(logger.csv) = fd.n_epochs
             /\ fd.n_epochs >= 1 => 1 \in Range(ckpt.best_at)

\* The number of epochs of the fit_dataset call whose log record is due.
Logged ==
    CASE pc \in {"fit_epoch", "fd_sched", "fd_val", "val_epoch", "fd_best",
                 "fd_latest", "fd_log"} -> fd.epoch_idx - 1
      [] pc \in {"fd_save", "predict_dataset", "fd_for"} -> fd.epoch_idx
      [] pc = "idle" /\ err \in {"none", "IndexError"} -> fd.epoch_idx
      [] OTHER -> fd.epoch_idx - 1

\* C3: fit_dataset appends one record per epoch to the in-memory log and to
\* logs.csv, right after that epoch's latest_model write and before anything
\* else of the run; after k epochs logs.csv holds k rows with the epochs
\* 1..k in order, and n_epochs rows once the call has returned.
C3_OneRowPerEpoch ==
    method = "fit_dataset" =>
        /\ Len(logger.csv) = Logged
        /\ logger.csv = logger.logs
        /\ \A i \in 1..Len(logger.csv) : logger.csv[i].epoch = i
        /\ Len(ckpt.latest_at) = Len(logger.csv) + (IF pc = "fd_log" THEN 1 ELSE 0)
        /\ Returned => Len(logger.csv) = fd.n_epochs

C3_Witness ==
    /\ Returned
    /\ method = "fit_dataset"
    /\ fd.n_epochs = 12
    /\ Len(logger.csv) = 12
    /\ logger.csv[12].epoch = 12

\* The epochs of the fit_dataset call whose numbered checkpoint step is over.
Saved ==
    IF \/ pc \in {"fd_for", "predict_dataset"}
       \/ pc = "idle" /\ err \in {"none", "IndexError"}
    THEN 1..fd.epoch_idx
    ELSE 1..(fd.epoch_idx - 1)

Multiples ==
    IF fd.save_freq = None \/ fd.save_freq = Some(0)
    THEN {}
    ELSE {IntToStr(e) : e \in {x \in Saved : x % fd.save_freq[1] = 0}}

\* C4 as stated: folder <e>/model exists exactly for the multiples e of a
\* truthy save_freq, and predict_dataset ran into exactly those folders
\* whenever a prediction dataset was supplied.
C4_PredictWheneverSupplied ==
    method = "fit_dataset" =>
        /\ ckpt.models = Multiples
        /\ ckpt.dirs = Multiples
        /\ ckpt.predicted = IF fd.predict_dataset # None THEN Multiples ELSE {}

\* C4 amended: folder <e>/model exists exactly for the multiples e of a
\* truthy save_freq, and predict_dataset ran into exactly those folders
\* whenever a prediction dataset with at least one sample was supplied (not
\* at all for None or an empty dataset); save_freq=5 and n_epochs=12 give
\* the folders 5 and 10.
C4_NumberedCheckpoints ==
    method = "fit_dataset" =>
        /\ ckpt.models = Multiples
        /\ ckpt.dirs = Multiples
        /\ ckpt.predicted =
             IF fd.predict_dataset # None /\ fd.predict_dataset[1].n > 0
             THEN Multiples ELSE {}
        /\ (Returned /\ fd.save_freq = Some(5) /\ fd.n_epochs = 12)
             => ckpt.models = {"5", "10"}

C4_Witness ==
    /\ Returned
    /\ method = "fit_dataset"
    /\ fd.save_freq = Some(5)
    /\ fd.n_epochs = 12
    /\ ckpt.models = {"5", "10"}
    /\ ckpt.predicted = {"5", "10"}
    /\ exported.files = <<"a.png", "b.png">>

\* C5: a fit_epoch that returns has seen every batch of the loader once, at
\* least one, and returns the sum of the observed batch losses divided by
\* their number.
C5_FitEpochMean ==
    [][(pc = "fit_epoch" /\ pc' = "idle" /\ err' = "none") =>
          /\ Len(fe.observed) = fe.total
          /\ fe.total >= 1
          /\ ret' = Some([train_loss |->
                            Div(SumSeq(fe.observed), Len(fe.observed))])]_vars

C5_Witness ==
    /\ Returned
    /\ method = "fit_epoch"
    /\ ret = Some([train_loss |-> <<3, 2>>])

\* C6: no step of val_epoch, from its entry to its return, changes the
\* network's parameters.
C6_ValEpochKeepsParams ==
    [][(pc = "val_epoch" \/ pc' = "val_epoch") => params' = params]_vars

C6_Witness ==
    /\ Returned
    /\ method = "val_epoch"
    /\ params = 2
    /\ ret = Some([val_loss |-> <<3, 2>>])

Identified == <<"a.png", "b.png", "c.png", "d.png", "e.png", "f.png">>

Numbered == <<"001.png", "002.png", "003.png", "004.png", "005.png", "006.png">>

\* C7: predict_dataset writes one file per sample in dataset order, named
\* by the sample's string identifier when the data source supplies one and
\* by the zero-padded 1-based position plus '.png' when it supplies none.
C7_PredictFilenames ==
    (method = "predict_dataset" /\ pc = "idle") =>
        /\ err = "none"
        /\ exported.files =
             SubSeq(IF exported.source.shape \in {"x_id", "x_y_id"}
                    THEN Identified ELSE Numbered, 1, exported.source.n)

\* C8: fit_epoch and val_epoch on a dataset of zero batches raise an
\* explicit error about the empty dataset, not an incidental unbound-variable
\* or arithmetic fault.
C8_EmptyDatasetExplicitError ==
    (method \in {"fit_epoch", "val_epoch"} /\ pc = "idle" /\ err # "none") =>
        err \notin {"UnboundLocalError", "ZeroDivisionError"}

\* C9: with a scheduler and a validation dataset, every epoch steps the
\* scheduler once, after fit_epoch and before val_epoch, with a defined
\* training loss, so the run is not stopped by an undefined name.
C9_SchedulerSteppedEachEpoch ==
    (method = "fit_dataset" /\ scheduler # None /\ fd.val_dataset # None
        /\ fd.dataset.n > 0 /\ fd.val_dataset[1].n > 0) =>
        /\ err # "NameError"
        /\ pc \in {"fd_val", "val_epoch", "fd_best", "fd_latest", "fd_log",
                   "fd_save"} => scheduler[1] = fd.epoch_idx
        /\ Returned => scheduler[1] = fd.n_epochs

\* C10: once one of fit_epoch, val_epoch, predict_dataset, predict_batch has
\* been entered, the network is in train mode exactly while fit_epoch's
\* batch loop runs; every optimizer step is taken in train mode, every step
\* of val_epoch, predict_dataset and predict_batch in eval mode, and the
\* network is in eval mode when a method returns.
C10_ModeDiscipline ==
    [][/\ touched' => (mode' = "train" <=> pc' = "fit_epoch")
       /\ params' # params => (mode = "train" /\ mode' = "train")
       /\ pc \in {"val_epoch", "predict_dataset", "predict_batch"} => mode = "eval"
       /\ (pc # "idle" /\ pc' = "idle" /\ err' = "none") => mode' = "eval"]_vars

C10_Witness ==
    /\ Returned
    /\ calls = 2
    /\ method = "val_epoch"
    /\ params > 0
    /\ mode = "eval"

====
